---- MODULE Spec2Model ----
(***************************************************************************)
(* Model of app.py: a Flask service with a request timing / telemetry      *)
(* middleware (_start_timer, _after), four routes (/health, /hello, /slow, *)
(* /error) and a function memoised by functools.lru_cache(maxsize=256).    *)
(*                                                                         *)
(* Each worker thread serves one request at a time and walks through       *)
(*   idle -> before -> handler -> ... -> after -> done -> idle             *)
(* The memo table is a sequence of entries, least recently used first.     *)
(***************************************************************************)
EXTENDS Integers, Sequences, FiniteSets, TLC

\* ------------------------------------------------------------------ bounds
NumWorkers == 2      \* worker threads serving requests concurrently
MaxTime == 3         \* the clocks stop advancing after this many ticks
TicksPerMs == 2      \* clock resolution: ticks per millisecond
MaxBack == 3         \* largest backwards step of the wall clock, in ticks

\* ------------------------------------------------------- program constants
maxsize == 256       \* @lru_cache(maxsize=256)

Workers == 1..NumWorkers
NoArg == <<"<absent>">>          \* request.args.get falls back to its default
NoResp == [status |-> 0, body |-> [none |-> TRUE]]

\* ----------------------------------------------------------- conversions
DigitChars == <<"0", "1", "2", "3", "4", "5", "6", "7", "8", "9">>
HexChars == DigitChars \o <<"a", "b", "c", "d", "e", "f">>

IsDigit(c) == \E i \in 1..10 : DigitChars[i] = c
DigitVal(c) == (CHOOSE i \in 1..10 : DigitChars[i] = c) - 1

RECURSIVE DigitsVal(_)
DigitsVal(s) ==
    IF s = <<>> THEN 0
    ELSE 10 * DigitsVal(SubSeq(s, 1, Len(s) - 1)) + DigitVal(s[Len(s)])

AllDigits(s) == Len(s) > 0 /\ \A i \in 1..Len(s) : IsDigit(s[i])

\* int(s): an optional sign and at least one decimal digit; anything else
\* raises ValueError.
IntOk(s) ==
    /\ Len(s) > 0
    /\ IF s[1] \in {"-", "+"} THEN AllDigits(Tail(s)) ELSE AllDigits(s)
IntOf(s) ==
    IF s[1] = "-" THEN 0 - DigitsVal(Tail(s))
    ELSE IF s[1] = "+" THEN DigitsVal(Tail(s))
    ELSE DigitsVal(s)

\* float(s) for a decimal literal "d" or "d.d", as a number of tenths;
\* anything else raises ValueError.
FloatOk(s) ==
    \/ Len(s) = 1 /\ IsDigit(s[1])
    \/ Len(s) = 3 /\ IsDigit(s[1]) /\ s[2] = "." /\ IsDigit(s[3])
FloatTenths(s) ==
    IF Len(s) = 1 THEN 10 * DigitVal(s[1])
    ELSE 10 * DigitVal(s[1]) + DigitVal(s[3])

\* hex(n) for n >= 0.
RECURSIVE HexDigits(_)
HexDigits(n) ==
    IF n < 16 THEN <<HexChars[n + 1]>>
    ELSE HexDigits(n \div 16) \o <<HexChars[(n % 16) + 1]>>
Hex(n) == <<"0", "x">> \o HexDigits(n)

\* int(f) truncates towards zero.
Trunc(a, b) == IF a >= 0 THEN a \div b ELSE 0 - ((0 - a) \div b)

\* int((time.time() - request._start) * 1000), times given in ticks.
DurMs(now, start) == Trunc(now - start, TicksPerMs)

\* x * x
Square(x) == x * x

\* ------------------------------------------------------ the memo table
\* An entry is [key, val]; the sequence runs from least to most recently used.
CacheKeys(c) == {c[i].key : i \in 1..Len(c)}
CacheHas(c, k) == k \in CacheKeys(c)
CacheIdx(c, k) == CHOOSE i \in 1..Len(c) : c[i].key = k
CacheGet(c, k) == c[CacheIdx(c, k)].val
Without(c, i) == SubSeq(c, 1, i - 1) \o SubSeq(c, i + 1, Len(c))

\* Faulty variant: a hit that leaves the recency order alone
CacheTouchNoMove(c, k) == c
\* A hit moves the entry to the most recently used end.
CacheTouch(c, k) == Without(c, CacheIdx(c, k)) \o <<c[CacheIdx(c, k)]>>

\* Faulty variant: the capacity test off by one
CacheFullLate(c) == Len(c) > maxsize
\* The table is full: the next insert evicts.
CacheFull(c) == Len(c) >= maxsize

\* Faulty variant: a store that drops the result
CachePutDrop(c, k, v) == c
\* The store after the wrapped function returned: nothing when the key was
\* added meanwhile, else insert as most recent, evicting the oldest when full.
CachePut(c, k, v) ==
    IF CacheHas(c, k) THEN c
    ELSE IF CacheFull(c) THEN Tail(c) \o <<[key |-> k, val |-> v]>>
    ELSE Append(c, [key |-> k, val |-> v])

\* The table after cached calls for 1..n, in that order, from a cold start.
Fill(n) == [i \in 1..n |-> [key |-> i, val |-> Square(i)]]

VARIABLES cache, lock, req, mono, wall

vars == <<cache, lock, req, mono, wall>>

\* ------------------------------------------------------------- requests
DefaultX == <<"7">>
DefaultCache == <<"0">>
DefaultDelay == <<"0">>
DefaultRate == <<"0", ".", "2">>

\* request.args.get(name, default)
ArgGet(v, default) == IF v = NoArg THEN default ELSE v

NoArgs == [x |-> NoArg, cache |-> NoArg, delay_ms |-> NoArg, rate |-> NoArg]

XArgs == {NoArg, <<"1">>, <<"3", "0", "0">>, <<"-", "2">>, <<"a", "b", "c">>}
CacheArgs == {NoArg, <<"1">>, <<"0">>, <<"t", "r", "u", "e">>}
DelayArgs == {NoArg, <<"5", "0">>, <<"x">>}
RateArgs == {NoArg, <<"0">>, <<"1">>, <<"h", "i">>}

\* random.random(), in tenths
Draws == {0, 1, 9}

\* str(n) for n >= 0.
RECURSIVE Str(_)
Str(n) ==
    IF n < 10 THEN <<DigitChars[n + 1]>>
    ELSE Str(n \div 10) \o <<DigitChars[(n % 10) + 1]>>

SERVICE_NAME == "observability-lab"
ENV == "dev"

\* Trace ids: 0 is the invalid span's; a new root span draws a fresh one.
AmbientTraces == {0, 171}
FreshTraces == {10, 255}

\* The requests the service is sent: a route, its query parameters, and the
\* span (if any) that is current when the request starts.
SlowRequests(xs, cs) ==
    {[path |-> "/slow", args |-> [NoArgs EXCEPT !.x = xa, !.cache = ca]] :
        xa \in xs, ca \in cs}
OtherRequests ==
    {[path |-> "/health", args |-> NoArgs]}
    \cup {[path |-> "/hello", args |-> [NoArgs EXCEPT !.delay_ms = d]] : d \in DelayArgs}
    \cup {[path |-> "/error", args |-> [NoArgs EXCEPT !.rate = r]] : r \in RateArgs}
AllRequests == SlowRequests(XArgs, CacheArgs) \cup OtherRequests
CacheRequests == SlowRequests({<<"1">>, <<"3", "0", "0">>}, {NoArg, <<"1">>})
TimedRequests == {q \in OtherRequests : q.path \in {"/health", "/hello"}}

\* The steps of _after, in order; "none" is past the last one.
AfterSteps == <<"dur", "counter", "hist", "span", "log", "none">>
StepNo(s) == CHOOSE i \in 1..Len(AfterSteps) : AfterSteps[i] = s
\* Step s completed when the first failing step is f.
Ran(s, f) == StepNo(s) < StepNo(f)

IdleReq ==
    [pc |-> "idle", path |-> "", method |-> "", args |-> NoArgs,
     amb |-> 0, ctx |-> <<>>, nth |-> 0, prev |-> NoResp, start |-> 0, t0 |-> 0, t1 |-> 0,
     x |-> 0, cache_on |-> FALSE, res |-> 0, via |-> "none", slept |-> 0,
     resp |-> NoResp, ret |-> NoResp, starts |-> 0, afters |-> 0,
     counter |-> <<>>, hist |-> <<>>, logs |-> <<>>]

\* trace.get_current_span().get_span_context().trace_id
CurrentTrace(ctx) == IF ctx = <<>> THEN 0 ELSE ctx[Len(ctx)]

\* start_as_current_span: a child keeps its parent's trace id.
SpanEnter(ctx, fresh) ==
    Append(ctx, IF CurrentTrace(ctx) = 0 THEN fresh ELSE CurrentTrace(ctx))
\* Faulty variant: the span stays current after the with block
SpanExitLeak(ctx) == ctx
\* Leaving the with block restores the previous current span.
SpanExit(ctx) == SubSeq(ctx, 1, Len(ctx) - 1)

\* Flask's response to an exception no handler is registered for.
ServerError == [status |-> 500, body |-> [page |-> "Internal Server Error"]]
\* Faulty variant: the 500 response of a raising handler skips the after_request functions
PcAfterRaiseSkip == "done"
\* Where a request goes when its handler raised: the 500 response is finalized
\* like any other, through the after_request functions.
PcAfterRaise == "after"

\* The service starts idle; the memo table is cold, or warm with the results of
\* cached calls for 1..256 made in that order.
Init ==
    /\ cache \in {<<>>, Fill(maxsize)}
    /\ lock = 0
    /\ req = [w \in Workers |-> IdleReq]
    /\ mono = 0
    /\ wall = 0

Set(w, r) == req' = [req EXCEPT ![w] = r]

\* The requests being served.
InFlight == {v \in Workers : req[v].pc # "idle"}

\* A request arrives and is given to the idle worker w; the server takes on
\* at most `limit` requests at a time.
Arrive(w, requests, ambients, limit) ==
    /\ req[w].pc = "idle"
    /\ Cardinality(InFlight) < limit
    /\ \E q \in requests, amb \in ambients :
          Set(w, [IdleReq EXCEPT !.pc = "before", !.path = q.path, !.method = "GET",
                                  !.args = q.args, !.nth = 1, !.amb = amb,
                                  !.ctx = IF amb = 0 THEN <<>> ELSE <<amb>>])
    /\ UNCHANGED <<cache, lock, mono, wall>>

\* @app.before_request
StartTimer(w) ==
    /\ req[w].pc = "before"
    /\ Set(w, [req[w] EXCEPT !.pc = "handler", !.start = wall, !.t0 = mono,
                             !.starts = @ + 1])
    /\ UNCHANGED <<cache, lock, mono, wall>>

\* The handler raised: no response of its own.
Raise(r) == [r EXCEPT !.pc = PcAfterRaise, !.resp = ServerError]
\* The handler returned a response.
Return(r, status, body) ==
    [r EXCEPT !.pc = "after", !.resp = [status |-> status, body |-> body]]

\* GET /health
Health(w) ==
    /\ req[w].pc = "handler" /\ req[w].path = "/health"
    /\ Set(w, Return(req[w], 200, [ok |-> TRUE]))
    /\ UNCHANGED <<cache, lock, mono, wall>>

\* GET /hello, up to the sleep or the return
Hello(w) ==
    /\ req[w].pc = "handler" /\ req[w].path = "/hello"
    /\ LET d == ArgGet(req[w].args.delay_ms, DefaultDelay) IN
         Set(w, IF ~IntOk(d) THEN Raise(req[w])
                ELSE IF IntOf(d) > 0 THEN [req[w] EXCEPT !.pc = "hello_sleep"]
                ELSE Return(req[w], 200, [message |-> "hello, datadog"]))
    /\ UNCHANGED <<cache, lock, mono, wall>>

\* time.sleep(delay_ms / 1000) returns
HelloWake(w) ==
    /\ req[w].pc = "hello_sleep"
    /\ Set(w, Return([req[w] EXCEPT !.slept = @ + 1], 200,
                     [message |-> "hello, datadog"]))
    /\ UNCHANGED <<cache, lock, mono, wall>>

\* GET /error
SometimesErrors(w) ==
    /\ req[w].pc = "handler" /\ req[w].path = "/error"
    /\ LET r == ArgGet(req[w].args.rate, DefaultRate) IN
         \E draw \in Draws :
            Set(w, IF ~FloatOk(r) THEN Raise(req[w])
                   ELSE IF draw < FloatTenths(r)
                        THEN Return(req[w], 500, [error |-> "intentional failure"])
                        ELSE Return(req[w], 200, [ok |-> TRUE]))
    /\ UNCHANGED <<cache, lock, mono, wall>>

\* Faulty variant: any value but "0" switches the cache on
CacheOnTruthy(arg) == ArgGet(arg, DefaultCache) # <<"0">>
\* cache_on = request.args.get("cache", "0") == "1"
CacheOn(arg) == ArgGet(arg, DefaultCache) = <<"1">>

\* GET /slow, up to the first point where the chosen compute function waits:
\* the table's lock (cached) or the sleep (uncached).
Slow(w, traces) ==
    /\ req[w].pc = "handler" /\ req[w].path = "/slow"
    /\ LET xs == ArgGet(req[w].args.x, DefaultX)
           on == CacheOn(req[w].args.cache)
       IN  \E fresh \in traces :
              Set(w, IF ~IntOk(xs) THEN Raise(req[w])
                     ELSE [req[w] EXCEPT
                              !.cache_on = on, !.x = IntOf(xs),
                              !.ctx = SpanEnter(@, fresh),
                              !.via = IF on THEN "cached" ELSE "uncached",
                              !.pc = IF on THEN "cached_call" ELSE "uncached_sleep"])
    /\ UNCHANGED <<cache, lock, mono, wall>>

\* Faulty variant: the lock is kept while the wrapped function runs
LockAcrossCall(w) == w
\* Who holds the table's lock once a lookup missed: nobody, the wrapped
\* function is called with the lock released.
LockAfterMiss(w) == 0

\* expensive_compute_cached: take the lock for the lookup
LookupLock(w) ==
    /\ req[w].pc = "cached_call"
    /\ lock = 0
    /\ lock' = w
    /\ Set(w, [req[w] EXCEPT !.pc = "lookup"])
    /\ UNCHANGED <<cache, mono, wall>>

\* the lookup: a hit returns the stored result, a miss goes on to the call
Lookup(w) ==
    /\ req[w].pc = "lookup"
    /\ IF CacheHas(cache, req[w].x)
       THEN /\ cache' = CacheTouch(cache, req[w].x)
            /\ lock' = 0
            /\ Set(w, [req[w] EXCEPT !.res = CacheGet(cache, req[w].x),
                                     !.pc = "slow_exit"])
       ELSE /\ cache' = cache
            /\ lock' = LockAfterMiss(w)
            /\ Set(w, [req[w] EXCEPT !.pc = "cached_sleep"])
    /\ UNCHANGED <<mono, wall>>

\* the wrapped function: time.sleep(0.8) returns, x * x is computed
CachedWake(w) ==
    /\ req[w].pc = "cached_sleep"
    /\ Set(w, [req[w] EXCEPT !.slept = @ + 1, !.res = Square(req[w].x),
                             !.pc = "store_wait"])
    /\ UNCHANGED <<cache, lock, mono, wall>>

\* take the (reentrant) lock for the store
StoreLock(w) ==
    /\ req[w].pc = "store_wait"
    /\ lock \in {0, w}
    /\ lock' = w
    /\ Set(w, [req[w] EXCEPT !.pc = "store"])
    /\ UNCHANGED <<cache, mono, wall>>

\* the store
Store(w) ==
    /\ req[w].pc = "store"
    /\ cache' = CachePut(cache, req[w].x, req[w].res)
    /\ lock' = 0
    /\ Set(w, [req[w] EXCEPT !.pc = "slow_exit"])
    /\ UNCHANGED <<mono, wall>>

\* expensive_compute_uncached: time.sleep(0.8) returns, x * x is computed
UncachedWake(w) ==
    /\ req[w].pc = "uncached_sleep"
    /\ Set(w, [req[w] EXCEPT !.slept = @ + 1, !.res = Square(req[w].x),
                             !.pc = "slow_exit"])
    /\ UNCHANGED <<cache, lock, mono, wall>>

\* slow returns: the with block ends the span, the response is built
SlowReturn(w) ==
    /\ req[w].pc = "slow_exit"
    /\ Set(w, Return([req[w] EXCEPT !.ctx = SpanExit(@)], 200,
                     [result |-> req[w].res, cache |-> req[w].cache_on]))
    /\ UNCHANGED <<cache, lock, mono, wall>>

\* Faulty variant: a failed step turns the response into an error
AfterReturnError(resp, f) == IF f = "none" THEN resp ELSE [resp EXCEPT !.status = 500]
\* What _after returns when its first failing step is f ("none": no failure).
AfterReturn(resp, f) == resp

\* log_json("request", ...): the payload of the line
LogLine(r, dur) ==
    [event |-> "request", service |-> SERVICE_NAME, env |-> ENV,
     path |-> r.path, method |-> r.method, status |-> r.resp.status,
     latency_ms |-> dur, trace_id |-> Hex(CurrentTrace(r.ctx))]

\* @app.after_request: the steps up to the first failing one take effect,
\* the exception is swallowed, the response is returned.
After(w, fails) ==
    /\ req[w].pc = "after"
    /\ \E f \in fails :
         LET r == req[w]
             dur == DurMs(wall, r.start)
         IN  Set(w, [r EXCEPT
                 !.pc = "done", !.afters = @ + 1, !.t1 = mono,
                 !.counter = IF Ran("counter", f)
                             THEN Append(@, [path |-> r.path, method |-> r.method,
                                             status |-> Str(r.resp.status)])
                             ELSE @,
                 !.hist = IF Ran("hist", f)
                          THEN Append(@, [value |-> dur, path |-> r.path,
                                          method |-> r.method])
                          ELSE @,
                 !.logs = IF Ran("log", f) THEN Append(@, LogLine(r, dur)) ELSE @,
                 !.ret = AfterReturn(r.resp, f)])
    /\ UNCHANGED <<cache, lock, mono, wall>>

\* The response is sent and the client sends the same request once more.
Repeat(w) ==
    /\ req[w].pc = "done"
    /\ req[w].nth = 1
    /\ Set(w, [IdleReq EXCEPT !.pc = "before", !.path = req[w].path,
                              !.method = req[w].method, !.args = req[w].args,
                              !.nth = 2, !.prev = req[w].ret, !.amb = req[w].amb,
                              !.ctx = IF req[w].amb = 0 THEN <<>> ELSE <<req[w].amb>>])
    /\ UNCHANGED <<cache, lock, mono, wall>>

\* The response is sent; the worker is free for the next request.
Respond(w) ==
    /\ req[w].pc = "done"
    /\ Set(w, IdleReq)
    /\ UNCHANGED <<cache, lock, mono, wall>>

\* Time passes: both clocks advance.
Tick ==
    /\ mono < MaxTime
    /\ mono' = mono + 1
    /\ wall' = wall + 1
    /\ UNCHANGED <<cache, lock, req>>

\* The wall clock is set back (NTP, an operator); the monotonic clock is not.
ClockBack ==
    /\ \E d \in 1..MaxBack :
          /\ (mono - wall) + d <= MaxBack
          /\ wall' = wall - d
    /\ UNCHANGED <<cache, lock, req, mono>>

AllFails == {AfterSteps[i] : i \in 1..Len(AfterSteps)}

\* The steps of a /slow request between its arrival and its response.
SlowStep(w, traces) ==
    \/ Slow(w, traces)
    \/ LookupLock(w)
    \/ Lookup(w)
    \/ CachedWake(w)
    \/ StoreLock(w)
    \/ Store(w)
    \/ UncachedWake(w)
    \/ SlowReturn(w)

\* One request at a time: every route and input, failing telemetry, a client
\* that may repeat its request. Time stands still.
Next ==
    \E w \in Workers :
        \/ Arrive(w, AllRequests, AmbientTraces, 1)
        \/ StartTimer(w)
        \/ Health(w)
        \/ Hello(w)
        \/ HelloWake(w)
        \/ SometimesErrors(w)
        \/ SlowStep(w, FreshTraces)
        \/ After(w, AllFails)
        \/ Repeat(w)
        \/ Respond(w)
Spec == Init /\ [][Next]_vars

\* All workers at once on /slow, cached and uncached.
NextConc ==
    \E w \in Workers :
        \/ Arrive(w, CacheRequests, {0}, NumWorkers)
        \/ StartTimer(w)
        \/ SlowStep(w, {10})
        \/ After(w, {"none"})
        \/ Respond(w)
SpecConc == Init /\ [][NextConc]_vars

\* One request at a time while the clocks move.
NextClock ==
    \/ \E w \in Workers :
          \/ Arrive(w, TimedRequests, {0}, 1)
          \/ StartTimer(w)
          \/ Health(w)
          \/ Hello(w)
          \/ HelloWake(w)
          \/ After(w, {"none"})
          \/ Respond(w)
    \/ Tick
    \/ ClockBack
SpecClock == Init /\ [][NextClock]_vars

\* ------------------------------------------------------------------ claims

\* C1: in every reachable state, whatever the interleaving of cached calls
\* (hits and misses, same or different keys), the memo table holds at most 256
\* entries, at most one entry per key, and every entry maps its key x to x*x.
C1_MemoTableInvariant ==
    /\ Len(cache) <= maxsize
    /\ Cardinality(CacheKeys(cache)) = Len(cache)
    /\ \A i \in 1..Len(cache) : cache[i].val = cache[i].key * cache[i].key
\* a full table into which a new key has been stored, evicting key 1
C1_Witness ==
    /\ Len(cache) = maxsize
    /\ CacheHas(cache, 300)
    /\ ~CacheHas(cache, 1)

\* The step in which worker w's missed call stores its result.
StoreStep(w) == req[w].pc = "store" /\ req'[w].pc = "slow_exit"
\* The step in which worker w's lookup hits.
HitStep(w) == req[w].pc = "lookup" /\ req'[w].pc = "slow_exit"

\* c2 is c after an LRU insert of x: x is the most recent entry, the oldest
\* entry is gone exactly when c was at capacity, all others are kept in order.
LruInserted(c, c2, x) ==
    /\ Len(c2) > 0
    /\ c2[Len(c2)] = [key |-> x, val |-> x * x]
    /\ SubSeq(c2, 1, Len(c2) - 1) = IF Len(c) = maxsize THEN Tail(c) ELSE c
\* c2 is c after a hit on x: nothing removed, x the most recent, the others
\* in their old order.
LruHit(c, c2, x) ==
    /\ Len(c2) = Len(c)
    /\ c2[Len(c2)].key = x
    /\ SubSeq(c2, 1, Len(c2) - 1) = Without(c, CacheIdx(c, x))

\* C5 as claimed: every miss inserts x as most recent, evicting exactly the
\* least recently used entry when the table holds 256 entries and nothing
\* otherwise; every hit removes nothing and makes x the most recent.
C5_EveryMissInserts ==
    [][\A w \in Workers :
          /\ StoreStep(w) => LruInserted(cache, cache', req[w].x)
          /\ HitStep(w) => LruHit(cache, cache', req[w].x)]_vars

\* C5 amended: a miss whose key is still absent when its result is stored
\* inserts x as most recent, evicting exactly the least recently used entry
\* when the table holds 256 entries and nothing otherwise; a miss whose key a
\* concurrent call stored meanwhile leaves the table, recency included, as it
\* is; every hit removes nothing and makes x the most recent.
C5_LruEviction ==
    [][\A w \in Workers :
          /\ StoreStep(w) =>
                IF CacheHas(cache, req[w].x) THEN cache' = cache
                ELSE LruInserted(cache, cache', req[w].x)
          /\ HitStep(w) => LruHit(cache, cache', req[w].x)]_vars
\* the 257th distinct key has been stored: 256 entries, only the oldest key
\* (1) is missing, and a second miss on the same key is still to store
C5_Witness ==
    \E w, v \in Workers :
        /\ w # v
        /\ req[w].pc = "slow_exit" /\ req[w].slept = 1 /\ req[w].x = 300
        /\ req[v].pc = "store_wait" /\ req[v].x = 300
        /\ Len(cache) = maxsize
        /\ CacheKeys(cache) = (1..maxsize \ {1}) \cup {300}
        /\ cache[maxsize].key = 300

\* A step of worker w that is not the arrival of a new request.
Progress(w) ==
    StartTimer(w) \/ SlowStep(w, {10}) \/ After(w, {"none"}) \/ Respond(w)
Sleeping(w) == req[w].pc \in {"cached_sleep", "uncached_sleep", "hello_sleep"}
InCritical(w) == req[w].pc \in {"lookup", "store"}

\* C7: no lock on the memo table is held across the suspension: a sleeping
\* request never holds the lock, every other request in flight can take a step
\* (or waits only for a lock holder that is not sleeping and can itself take a
\* step); two concurrent misses on the same key both sleep, both return x*x
\* with status 200.
C7_NoLockAcrossSleep ==
    /\ \A w \in Workers : Sleeping(w) => lock # w
    /\ lock # 0 => InCritical(lock)
    /\ \A w \in InFlight :
          \/ ENABLED Progress(w)
          \/ lock \notin {0, w} /\ InCritical(lock) /\ ENABLED Progress(lock)
    /\ \A w \in Workers :
          req[w].pc = "done" /\ req[w].via # "none" =>
             /\ req[w].ret.status = 200
             /\ req[w].ret.body.result = req[w].x * req[w].x
\* one miss on x is asleep while another request for x has run to completion
\* after paying the sleep itself
C7_Witness ==
    \E w, v \in Workers :
        /\ w # v
        /\ req[w].pc = "cached_sleep"
        /\ req[v].pc = "done" /\ req[v].via = "cached" /\ req[v].slept = 1
        /\ req[v].x = req[w].x

\* The span context a request starts with.
Base(r) == IF r.amb = 0 THEN <<>> ELSE <<r.amb>>
InSlowWork(r) ==
    r.pc \in {"cached_call", "lookup", "cached_sleep", "store_wait", "store",
              "uncached_sleep", "slow_exit"}

\* C2: for every request, whether its handler returns 200, returns 500 or
\* raises, _start_timer has run once before the handler and _after has run
\* exactly once when the response is ready to be sent, after the handler
\* finished; never zero times, never twice.
C2_HooksOncePerRequest ==
    \A w \in Workers :
        LET r == req[w] IN
        /\ r.pc \in {"idle", "before"} => r.starts = 0 /\ r.afters = 0
        /\ r.pc \notin {"idle", "before", "done"} => r.starts = 1 /\ r.afters = 0
        /\ r.pc = "after" => r.resp # NoResp
        /\ r.pc = "done" =>
              r.starts = 1 /\ r.afters = 1 /\ r.resp # NoResp /\ r.ret # NoResp
\* a request whose handler raised on a non-numeric parameter is ready to be sent
C2_Witness ==
    \E w \in Workers :
        /\ req[w].pc = "done"
        /\ req[w].resp = ServerError
        /\ req[w].args.x = <<"a", "b", "c">>
        /\ req[w].afters = 1

\* C3: when a step of _after fails, the failure is swallowed: the response
\* handed on is the one the handler produced, status and body unchanged.
C3_AfterNeverAltersResponse ==
    \A w \in Workers :
        req[w].pc = "done" =>
            /\ req[w].ret.status = req[w].resp.status
            /\ req[w].ret.body = req[w].resp.body
\* a 200 response went through an _after whose histogram step or a later one
\* failed: the counter was incremented, no line was logged
C3_Witness ==
    \E w \in Workers :
        /\ req[w].pc = "done"
        /\ req[w].logs = <<>>
        /\ req[w].counter # <<>>
        /\ req[w].ret.status = 200

\* C4 as claimed: every completed request has produced exactly one log line
\* whose path, method and status are the request's and the response's, also
\* when the counter add or the histogram record fails.
C4_OneLogLinePerRequest ==
    \A w \in Workers :
        req[w].pc = "done" =>
            /\ Len(req[w].logs) = 1
            /\ req[w].logs[1].path = req[w].path
            /\ req[w].logs[1].method = req[w].method
            /\ req[w].logs[1].status = req[w].ret.status

\* C6: a cached call for x made right after a cached call for x (the same
\* request sent twice in sequence) is a hit: it does not sleep, and both calls
\* return x*x, so both responses are {result: x*x, cache: true}.
C6_SecondCallHits ==
    \A w \in Workers :
        LET r == req[w] IN
        /\ r.nth = 2 /\ r.via = "cached" /\ r.pc \in {"slow_exit", "after", "done"} =>
              /\ r.slept = 0
              /\ r.res = r.x * r.x
              /\ r.prev.status = 200
              /\ r.prev.body = [result |-> r.x * r.x, cache |-> TRUE]
        /\ r.nth = 2 /\ r.via = "cached" /\ r.pc = "done" => r.ret = r.prev
\* the second of two requests for a key that was not cached at first is done
C6_Witness ==
    \E w \in Workers :
        /\ req[w].nth = 2 /\ req[w].pc = "done" /\ req[w].via = "cached"
        /\ req[w].x = 300
        /\ req[w].ret.body.result = 90000
        /\ req[w].slept = 0

\* C8: GET /slow takes the cached path exactly when the cache parameter is the
\* string "1"; its response carries result = x*x and that flag; a request on
\* the uncached path always sleeps, and none of its steps changes the memo
\* table, entries or recency order, whether or not x is cached.
C8_SlowPathByFlag ==
    [][\A w \in Workers :
          LET r == req[w]
              flag == ArgGet(r.args.cache, <<"0">>) = <<"1">>
          IN  /\ r.via = "cached" => flag
              /\ r.via = "uncached" => ~flag
              /\ r.pc \in {"cached_call", "lookup", "cached_sleep", "store_wait",
                           "store"} => r.via = "cached"
              /\ r.pc = "uncached_sleep" => r.via = "uncached"
              /\ r.pc = "done" /\ r.via # "none" =>
                    /\ r.ret = [status |-> 200,
                                body |-> [result |-> r.x * r.x, cache |-> flag]]
                    /\ r.via = "uncached" => r.slept = 1
              /\ r.path = "/slow" /\ ~flag /\ req'[w] # r => cache' = cache]_vars
\* an uncached request for a key the table holds has slept and is done; its
\* cache parameter was "true", not "1"
C8_Witness ==
    \E w \in Workers :
        /\ req[w].pc = "done" /\ req[w].via = "uncached"
        /\ req[w].args.cache = <<"t", "r", "u", "e">>
        /\ CacheHas(cache, req[w].x)
        /\ req[w].slept = 1

\* C9 as claimed: the latency recorded in the histogram and in the log line is
\* the monotonic time from the start hook to the completion hook, floored to
\* whole milliseconds, hence never negative, also when the wall clock is set
\* back in between.
C9_LatencyIsMonotonic ==
    \A w \in Workers :
        req[w].pc = "done" /\ req[w].hist # <<>> /\ req[w].logs # <<>> =>
            /\ req[w].hist[1].value >= 0
            /\ req[w].hist[1].value = (req[w].t1 - req[w].t0) \div TicksPerMs
            /\ req[w].logs[1].latency_ms = req[w].hist[1].value

\* C10: the slow_work span is current from before the compute call until the
\* handler returns and is ended before _after runs, so _after never sees it:
\* the trace id logged is that of the span that was current before the handler
\* ran, hex(0) when there was none.
C10_SpanEndedBeforeAfter ==
    \A w \in Workers :
        LET r == req[w] IN
        /\ InSlowWork(r) => Len(r.ctx) = Len(Base(r)) + 1
        /\ r.pc \in {"after", "done"} => r.ctx = Base(r)
        /\ r.pc = "done" /\ r.logs # <<>> =>
              r.logs[1].trace_id = IF r.amb = 0 THEN <<"0", "x", "0">>
                                   ELSE <<"0", "x", "a", "b">>
\* a /slow request that started with no current span has logged hex(0)
C10_Witness ==
    \E w \in Workers :
        /\ req[w].pc = "done" /\ req[w].via # "none" /\ req[w].amb = 0
        /\ req[w].logs # <<>>
        /\ req[w].logs[1].trace_id = <<"0", "x", "0">>
====
